---- MODULE Spec2Model ----
(***************************************************************************)
(* Model of graphite_api/sociomantic.py: the alignment (normalizer) and    *)
(* combine operators over TimeSeries objects.                              *)
(*                                                                         *)
(* A TimeSeries is a mutable object; the operators receive lists of        *)
(* references and consolidate the referenced objects in place.  The heap   *)
(* maps a reference (1..NumSeries) to the object's fields.  Sample values  *)
(* are exact rationals <<numerator, denominator>> (denominator > 0, lowest *)
(* terms); Python's None is the pair <<0, 0>>.  The interpreter is Python  *)
(* 3: / is true division.  Floating point rounding is modelled only where  *)
(* it decides a result (the order of equal sigmas in mostDeviant).         *)
(***************************************************************************)
EXTENDS Integers, Sequences, FiniteSets, TLC

VARIABLES heap, input, pc, args, ret

vars == <<heap, input, pc, args, ret>>

(***************************************************************************)
(* Bounds of the model.                                                    *)
(***************************************************************************)
MaxStep == 3
MaxLen == 2
MaxVal == 2
MaxStart == 1
MaxN == 3
MaxWindow == 4
MaxMovingLen == 4

(***************************************************************************)
(* Exact rational arithmetic for sample values.                            *)
(***************************************************************************)
None == <<0, 0>>

IsNone(v) == v[2] = 0

Abs(n) == IF n < 0 THEN -n ELSE n

RECURSIVE Gcd(_, _)
Gcd(a, b) == IF b = 0 THEN a ELSE Gcd(b, a % b)

RNorm(n, d) ==
    LET g == Gcd(Abs(n), d)
    IN  <<n \div g, d \div g>>

R(n) == <<n, 1>>

RAdd(a, b) == RNorm(a[1] * b[2] + b[1] * a[2], a[2] * b[2])

RSub(a, b) == RNorm(a[1] * b[2] - b[1] * a[2], a[2] * b[2])

RMul(a, b) == RNorm(a[1] * b[1], a[2] * b[2])

RDiv(a, b) ==
    IF b[1] < 0 THEN RNorm(-(a[1] * b[2]), a[2] * (-b[1]))
    ELSE RNorm(a[1] * b[2], a[2] * b[1])

RLess(a, b) == a[1] * b[2] < b[1] * a[2]

(***************************************************************************)
(* Sequence helpers standing for Python's list operations.                 *)
(***************************************************************************)
Min2(a, b) == IF a < b THEN a ELSE b

Max2(a, b) == IF a > b THEN a ELSE b

RECURSIVE SumR(_)
SumR(vs) == IF vs = <<>> THEN R(0) ELSE RAdd(Head(vs), SumR(Tail(vs)))

NonNull(vs) == SelectSeq(vs, LAMBDA v : ~IsNone(v))

RECURSIVE Flatten(_)
Flatten(ls) == IF ls = <<>> THEN <<>> ELSE Head(ls) \o Flatten(Tail(ls))

\* All sequences over S of length 0..n
SeqsUpTo(S, n) == UNION {[1..k -> S] : k \in 0..n}

\* zip_longest of value sequences: the sample at index i, None past the end
At(vs, i) == IF i <= Len(vs) THEN vs[i] ELSE None

(***************************************************************************)
(* Safe arithmetic (graphite_api/functions.py, imported at line 22).       *)
(***************************************************************************)
safeSum(vs) == IF NonNull(vs) = <<>> THEN None ELSE SumR(NonNull(vs))

safeLen(vs) == Len(NonNull(vs))

safeDiv(a, b) ==
    IF IsNone(a) \/ IsNone(b) \/ b[1] = 0 THEN None ELSE RDiv(a, b)

safeMul(a, b) == IF IsNone(a) \/ IsNone(b) THEN None ELSE RMul(a, b)

safeAvg(vs) == safeDiv(safeSum(vs), R(safeLen(vs)))

lcm(a, b) == (a * b) \div Gcd(a, b)

RECURSIVE ReduceLcm(_)
ReduceLcm(steps) ==
    IF Len(steps) = 1 THEN steps[1]
    ELSE lcm(ReduceLcm(SubSeq(steps, 1, Len(steps) - 1)), steps[Len(steps)])

RECURSIVE MinOf(_)
MinOf(ns) ==
    IF Len(ns) = 1 THEN ns[1] ELSE Min2(ns[1], MinOf(Tail(ns)))

RECURSIVE MaxOf(_)
MaxOf(ns) ==
    IF Len(ns) = 1 THEN ns[1] ELSE Max2(ns[1], MaxOf(Tail(ns)))

(***************************************************************************)
(* TimeSeries (graphite_api/render/datalib.py, imported at line 21; the    *)
(* class is not part of the sources at hand and follows sections 3, 4.2    *)
(* and 8 of the specification).                                            *)
(***************************************************************************)
\* The constructor: the pathExpression of a new series is its name until
\* the caller sets it
TimeSeries(name, start, end, step, values) ==
    [name |-> name, pathExpression |-> name, start |-> start, end |-> end,
     step |-> step, values |-> values]

\* Block averaging: each run of f consecutive samples becomes the average
\* of its non-missing samples, None when it has none ([1, 2, 3, 4] by 2 is
\* [3/2, 7/2]); the samples left over at the end form a shorter last run
Blocks(vs, f) ==
    LET n == (Len(vs) + f - 1) \div f
    IN  [k \in 1..n |->
            safeAvg(SubSeq(vs, (k - 1) * f + 1, Min2(k * f, Len(vs))))]

\* s.consolidate(f) / s.approximate(f): the samples are replaced by their
\* block averages and step becomes step * f; a factor of 1 changes
\* nothing, and a factor below 1 groups nothing
consolidate(s, f) ==
    IF f <= 1 THEN s
    ELSE [s EXCEPT !.values = Blocks(s.values, f), !.step = s.step * f]

(***************************************************************************)
(* normalizeApproximate, lines 32-40.                                      *)
(***************************************************************************)
\* line 36: the factor handed to s.approximate
approximateFactor(sStep, step) == sStep \div step

\* lines 35-36: the loop over seriesList, mutating each object in turn;
\* returns the heap and the factors requested, in list order
RECURSIVE approximateAll(_, _, _)
approximateAll(h, refs, step) ==
    IF refs = <<>> THEN [heap |-> h, factors |-> <<>>]
    ELSE LET r == Head(refs)
             f == approximateFactor(h[r].step, step)
             rest == approximateAll([h EXCEPT ![r] = consolidate(h[r], f)],
                                    Tail(refs), step)
         IN  [heap |-> rest.heap, factors |-> <<f>> \o rest.factors]

\* A trim that keeps the untrimmed end
trimEndKeep(start, end, step) == end

\* line 39: end -= (end - start) % step
trimEnd(start, end, step) == end - ((end - start) % step)

normalizeApproximate(h, seriesLists) ==
    LET seriesList == Flatten(seriesLists)
    IN  IF seriesLists = <<>> \/ seriesList = <<>>
        THEN [heap |-> h, ret |-> [err |-> "TypeError"]]
        ELSE
        LET step == ReduceLcm([i \in 1..Len(seriesList) |-> h[seriesList[i]].step])
            done == approximateAll(h, seriesList, step)
            start == MinOf([i \in 1..Len(seriesList) |-> done.heap[seriesList[i]].start])
            end == MaxOf([i \in 1..Len(seriesList) |-> done.heap[seriesList[i]].end])
        IN  [heap |-> done.heap,
             ret |-> [err |-> "none", seriesList |-> seriesList,
                      start |-> start, end |-> trimEnd(start, end, step),
                      step |-> step, factors |-> done.factors]]

(***************************************************************************)
(* fastNormalize, lines 289-309.                                           *)
(***************************************************************************)
\* lines 294-302: one iteration of the scan
scanStep(acc, s) ==
    LET step == IF acc.step # s.step THEN lcm(acc.step, s.step) ELSE acc.step
        min_step == IF acc.step # s.step /\ step > s.step
                    THEN s.step ELSE acc.min_step
    IN  [step |-> step, min_step |-> min_step,
         start |-> IF acc.start > s.start THEN s.start ELSE acc.start,
         end |-> IF acc.end < s.end THEN s.end ELSE acc.end]

RECURSIVE scan(_, _, _)
scan(h, refs, acc) ==
    IF refs = <<>> THEN acc
    ELSE scan(h, Tail(refs), scanStep(acc, h[Head(refs)]))

\* lines 306-307: the loop consolidating every series by step // s.step
RECURSIVE consolidateAll(_, _, _)
consolidateAll(h, refs, step) ==
    IF refs = <<>> THEN [heap |-> h, factors |-> <<>>]
    ELSE LET r == Head(refs)
             f == step \div h[r].step
             rest == consolidateAll([h EXCEPT ![r] = consolidate(h[r], f)],
                                    Tail(refs), step)
         IN  [heap |-> rest.heap, factors |-> <<f>> \o rest.factors]

fastNormalize(h, seriesLists) ==
    IF seriesLists = <<>> THEN [heap |-> h, ret |-> [err |-> "IndexError"]]
    ELSE
    LET first == h[seriesLists[1]]
        acc == scan(h, seriesLists,
                    [step |-> first.step, min_step |-> first.step,
                     start |-> first.start, end |-> first.end])
        done == IF acc.step # acc.min_step
                THEN consolidateAll(h, seriesLists, acc.step)
                ELSE [heap |-> h, factors |-> <<>>]
    IN  [heap |-> done.heap,
         ret |-> [err |-> "none", seriesList |-> seriesLists,
                  start |-> acc.start,
                  end |-> trimEnd(acc.start, acc.end, acc.step),
                  step |-> acc.step, min_step |-> acc.min_step,
                  factors |-> done.factors]]

(***************************************************************************)
(* divideSeries, lines 50-94.                                              *)
(***************************************************************************)
\* A length check that forgets the single-divisor case
divideArgumentErrorStrict(nDividend, nDivisor) == nDivisor # nDividend

\* line 66: the condition under which ValueError is raised
divideArgumentError(nDividend, nDivisor) ==
    nDivisor # 1 /\ nDivisor # nDividend

\* lines 71-73: a single divisor is repeated once per dividend
repeatDivisor(divisorSeriesList, n) ==
    IF Len(divisorSeriesList) = 1
    THEN [i \in 1..n |-> divisorSeriesList[1]]
    ELSE divisorSeriesList

\* zip_longest of two reference lists; reference 0 is the None fill value
NoRef == 0

RefAt(refs, i) == IF i <= Len(refs) THEN refs[i] ELSE NoRef

\* lines 76-92: one iteration of the loop over (dividend, divisor) pairs
dividePair(h, dividend, divisor) ==
    LET step == lcm(h[dividend].step, h[divisor].step)
        h1 == [h EXCEPT ![dividend] =
                   consolidate(h[dividend], step \div h[dividend].step)]
        h2 == [h1 EXCEPT ![divisor] =
                   consolidate(h1[divisor], step \div h1[divisor].step)]
        start == Min2(h2[dividend].start, h2[divisor].start)
        end == Max2(h2[dividend].end, h2[divisor].end)
        v1 == h2[dividend].values
        v2 == h2[divisor].values
        values == [i \in 1..Max2(Len(v1), Len(v2)) |->
                      safeDiv(At(v1, i), At(v2, i))]
    IN  [heap |-> h2,
         series |-> TimeSeries(<<"divideSeries", h[dividend].name, h[divisor].name>>,
                               start, trimEnd(start, end, step), step, values)]

\* line 75: the loop, from pair i on, appending to results
RECURSIVE divideLoop(_, _, _, _, _)
divideLoop(h, dividends, divisors, i, results) ==
    IF i > Max2(Len(dividends), Len(divisors))
    THEN [heap |-> h, ret |-> [err |-> "none", results |-> results]]
    ELSE IF RefAt(dividends, i) = NoRef \/ RefAt(divisors, i) = NoRef
    THEN [heap |-> h, ret |-> [err |-> "AttributeError", results |-> <<>>]]
    ELSE LET one == dividePair(h, dividends[i], divisors[i])
         IN  divideLoop(one.heap, dividends, divisors, i + 1,
                        Append(results, one.series))

divideSeries(h, dividendSeriesList, divisorSeriesList) ==
    IF divideArgumentError(Len(dividendSeriesList), Len(divisorSeriesList))
    THEN [heap |-> h, ret |-> [err |-> "ValueError", results |-> <<>>]]
    ELSE divideLoop(h, dividendSeriesList,
                    repeatDivisor(divisorSeriesList, Len(dividendSeriesList)),
                    1, <<>>)

(***************************************************************************)
(* asPercent, lines 97-154.  The total argument is None, a number or a     *)
(* list of series:                                                         *)
(*    [kind |-> "none"], [kind |-> "scalar", value |-> v],                 *)
(*    [kind |-> "list", refs |-> <<...>>].                                 *)
(***************************************************************************)
NoTotal == [kind |-> "none"]

ScalarTotal(v) == [kind |-> "scalar", value |-> v]

ListTotal(refs) == [kind |-> "list", refs |-> refs]

\* A length check that forgets the single-total case
totalArgumentErrorStrict(nSeries, nTotal) == nTotal = 0 \/ nTotal # nSeries

\* lines 125-133: the conditions under which ValueError is raised
totalArgumentError(nSeries, nTotal) ==
    nTotal = 0 \/ (nTotal # 1 /\ nTotal # nSeries)

\* zip_longest(*seriesList): the samples of every series at index i
Row(h, seriesList, i) ==
    [k \in DOMAIN seriesList |-> At(h[seriesList[k]].values, i)]

MaxLenOf(h, seriesList) ==
    IF seriesList = <<>> THEN 0
    ELSE MaxOf([k \in DOMAIN seriesList |-> Len(h[seriesList[k]].values)])

\* A default total taken from the first series alone
defaultTotalFirst(h, seriesList) == h[seriesList[1]].values

\* line 122: [safeSum(row) for row in zip_longest(*seriesList)]
defaultTotal(h, seriesList) ==
    [i \in 1..MaxLenOf(h, seriesList) |-> safeSum(Row(h, seriesList, i))]

\* line 139: repeat(repeat(total, len(seriesList[0])), len(seriesList)) hands
\* the same inner iterator to every series; the k-th consumer finds what the
\* earlier ones left, and zip_longest drains it
scalarTotal(h, seriesList, total, k) ==
    IF k = 1 THEN [i \in 1..Len(h[seriesList[1]].values) |-> total]
    ELSE <<>>

\* lines 144-145: safeMul(safeDiv(val, totalVal), 100.0) over zip_longest
percentValues(values, totalValues) ==
    [i \in 1..Max2(Len(values), Len(totalValues)) |->
        safeMul(safeDiv(At(values, i), At(totalValues, i)), R(100))]

\* The text of an absent total.  Line 148 only tests totalText for truth,
\* where None and the empty string are both false
NoText == ""

\* line 139: str(total), a text that is never empty
str(v) == ToString(v)

\* line 148: totalText or series.pathExpression
totalLabel(totalText, pathExpression) ==
    IF totalText = NoText THEN pathExpression ELSE totalText

\* lines 143-152: the result for the k-th series
percentSeries(h, series, totalValues, totalText) ==
    TimeSeries(<<"asPercent", h[series].name,
                 totalLabel(totalText, h[series].pathExpression)>>,
               h[series].start, h[series].end, h[series].step,
               percentValues(h[series].values, totalValues))

asPercent(h, seriesList, total) ==
    IF seriesList = <<>>
    THEN [heap |-> h, ret |-> [err |-> "none", results |-> <<>>]]
    ELSE
    LET h1 == normalizeApproximate(h, <<seriesList>>).heap
        n == Len(seriesList)
    IN  IF total.kind = "none"
        THEN [heap |-> h1,
              ret |-> [err |-> "none",
                       results |-> [k \in 1..n |->
                           percentSeries(h1, seriesList[k],
                                         defaultTotal(h1, seriesList),
                                         NoText)]]]
        ELSE IF total.kind = "list"
        THEN IF totalArgumentError(n, Len(total.refs))
             THEN [heap |-> h1, ret |-> [err |-> "ValueError", results |-> <<>>]]
             ELSE
             LET totals == IF Len(total.refs) = 1
                           THEN [k \in 1..n |-> total.refs[1]]
                           ELSE total.refs
                 h2 == normalizeApproximate(h1, <<seriesList, totals>>).heap
             IN  [heap |-> h2,
                  ret |-> [err |-> "none",
                           results |-> [k \in 1..n |->
                               percentSeries(h2, seriesList[k],
                                             h2[totals[k]].values,
                                             h2[totals[k]].name)]]]
        ELSE [heap |-> h1,
              ret |-> [err |-> "none",
                       results |-> [k \in 1..n |->
                           percentSeries(h1, seriesList[k],
                                         scalarTotal(h1, seriesList, total.value, k),
                                         str(total.value))]]]

(***************************************************************************)
(* movingAverageOld, lines 191-222.                                        *)
(***************************************************************************)
\* A window reaching one sample too far back
windowIndexOfWide(windowSize) == windowSize

\* line 207: windowIndex = int(windowSize) - 1
windowIndexOf(windowSize) == windowSize - 1

\* lines 210-218: the sample appended for the 0-based index i
movingAverageAt(values, windowIndex, i) ==
    IF i < windowIndex THEN None
    ELSE LET window == SubSeq(values, i - windowIndex + 1, i + 1)
             nonNull == NonNull(window)
         IN  IF nonNull # <<>> THEN RDiv(SumR(nonNull), R(Len(nonNull)))
             ELSE None

\* lines 203-220: the series that replaces seriesList[seriesIndex]
movingAverageSeries(series, windowSize) ==
    TimeSeries(<<"movingAverage", series.name, windowSize>>,
               series.start, series.end, series.step,
               [j \in 1..Len(series.values) |->
                   movingAverageAt(series.values, windowIndexOf(windowSize), j - 1)])

movingAverageOld(h, seriesList, windowSize) ==
    [heap |-> h,
     ret |-> [err |-> "none",
              results |-> [k \in DOMAIN seriesList |->
                              movingAverageSeries(h[seriesList[k]], windowSize)]]]

(***************************************************************************)
(* mostDeviant, lines 254-286.  Each argument is a list of series          *)
(* [kind |-> "list", refs |-> <<...>>] or an integer                       *)
(* [kind |-> "int", value |-> n].                                          *)
(***************************************************************************)
ListArg(refs) == [kind |-> "list", refs |-> refs]

IntArg(n) == [kind |-> "int", value |-> n]

\* lines 278-280: sigma of a series with a mean
sigmaOf(values) ==
    LET mean == safeAvg(values)
        nonNull == NonNull(values)
        squares == [i \in DOMAIN nonNull |->
                       RMul(RSub(nonNull[i], mean), RSub(nonNull[i], mean))]
    IN  safeDiv(SumR(squares), R(safeLen(values)))

\* A rational a binary float holds exactly (the magnitudes here are small)
IsDyadic(r) == \E k \in 0..r[2] : 2 ^ k = r[2]

\* lines 275-280 in floating point: the computed sigma is the exact one
\* when the samples, the mean and the quotient are all held exactly;
\* otherwise it is the exact one up to rounding
sigmaIsExact(values, mean, sigma) ==
    /\ \A i \in DOMAIN values : IsNone(values[i]) \/ IsDyadic(values[i])
    /\ IsDyadic(mean)
    /\ IsDyadic(sigma)

\* lines 274-283: the loop collecting (sigma, series) pairs
RECURSIVE deviantsOf(_, _)
deviantsOf(h, refs) ==
    IF refs = <<>> THEN <<>>
    ELSE LET series == Head(refs)
             values == h[series].values
             mean == safeAvg(values)
             sigma == sigmaOf(values)
             rest == deviantsOf(h, Tail(refs))
         IN  IF IsNone(mean) THEN rest
             ELSE IF IsNone(sigma) THEN rest
             ELSE <<[sigma |-> sigma, series |-> series,
                     exact |-> sigmaIsExact(values, mean, sigma)]>> \o rest

\* An ascending stable insertion
insertAscending(sorted, d) ==
    LET before == SelectSeq(sorted, LAMBDA e : ~RLess(d.sigma, e.sigma))
        after == SelectSeq(sorted, LAMBDA e : RLess(d.sigma, e.sigma))
    IN  before \o <<d>> \o after

\* lines 284-286: sorted(..., key=itemgetter(0), reverse=True) is stable: d
\* goes after every element whose sigma is not smaller
insertBySigma(sorted, d) ==
    LET before == SelectSeq(sorted, LAMBDA e : ~RLess(e.sigma, d.sigma))
        after == SelectSeq(sorted, LAMBDA e : RLess(e.sigma, d.sigma))
    IN  before \o <<d>> \o after

RECURSIVE sortBySigma(_)
sortBySigma(deviants) ==
    IF deviants = <<>> THEN <<>>
    ELSE insertBySigma(sortBySigma(SubSeq(deviants, 1, Len(deviants) - 1)),
                       deviants[Len(deviants)])

\* line 286: the slice [:realN]
sliceTo(l, n) ==
    IF n >= 0 THEN SubSeq(l, 1, Min2(n, Len(l)))
    ELSE SubSeq(l, 1, Max2(Len(l) + n, 0))

\* line 284 in floating point: the orders sorted() can produce.  Sigmas
\* that differ are ordered as the exact ones are; equal exact sigmas keep
\* the list order when both were computed exactly, and come in the order
\* rounding decides, either one, when one of them was not
sortedOrders(deviants) ==
    LET sorted == sortBySigma(deviants)
        n == Len(sorted)
        moves == {q \in [1..n -> 1..n] :
                     /\ \A i, j \in 1..n : q[i] = q[j] => i = j
                     /\ \A i \in 1..n : sorted[q[i]].sigma = sorted[i].sigma
                     /\ \A i, j \in 1..n :
                           (i < j /\ sorted[q[i]].sigma = sorted[q[j]].sigma
                                  /\ sorted[q[i]].exact /\ sorted[q[j]].exact)
                               => q[i] < q[j]}
    IN  {[i \in 1..n |-> sorted[q[i]]] : q \in moves}

\* The set of outcomes of one call, one per order of sortedOrders
mostDeviant(h, seriesList, n) ==
    LET swapped == n.kind = "list"
        realSeriesList == IF swapped THEN n ELSE seriesList
        realN == IF swapped THEN seriesList ELSE n
    IN  {[heap |-> h,
          ret |-> [err |-> "none",
                   results |-> sliceTo([i \in DOMAIN ranked |-> ranked[i].series],
                                       realN.value)]] :
            ranked \in sortedOrders(deviantsOf(h, realSeriesList.refs))}

(***************************************************************************)
(* safeSumFast, lines 312-324, and sumSeriesFast, lines 328-353.           *)
(***************************************************************************)
\* lines 318-323: one sample of one series, at position cnt (0-based)
addSample(result, cnt, val) ==
    IF IsNone(val) THEN result
    ELSE IF cnt < Len(result)
    THEN [result EXCEPT ![cnt + 1] = RAdd(result[cnt + 1], val)]
    ELSE Append(result, val)

\* lines 316-323: the inner loop over the samples of one series
RECURSIVE addSeries(_, _, _)
addSeries(result, values, cnt) ==
    IF cnt >= Len(values) THEN result
    ELSE addSeries(addSample(result, cnt, values[cnt + 1]), values, cnt + 1)

\* lines 313-324: the outer loop
RECURSIVE safeSumFastFrom(_, _, _)
safeSumFastFrom(h, refs, result) ==
    IF refs = <<>> THEN result
    ELSE safeSumFastFrom(h, Tail(refs), addSeries(result, h[Head(refs)].values, 0))

safeSumFast(h, seriesLists) == safeSumFastFrom(h, seriesLists, <<>>)

\* The distinct path expressions of the series, as the name lists them
formatPathExpressions(h, seriesList) ==
    {h[seriesList[k]].pathExpression : k \in DOMAIN seriesList}

sumSeriesFast(h, seriesLists) ==
    IF seriesLists = <<>> \/ seriesLists = << <<>> >>
    THEN [heap |-> h, ret |-> [err |-> "none", results |-> <<>>]]
    ELSE
    LET norm == fastNormalize(h, seriesLists[1])
    IN  IF norm.ret.err # "none"
        THEN [heap |-> norm.heap, ret |-> [err |-> norm.ret.err, results |-> <<>>]]
        ELSE
        LET seriesList == norm.ret.seriesList
            name == <<"sumSeriesFast",
                      formatPathExpressions(norm.heap, seriesList)>>
        IN  [heap |-> norm.heap,
             ret |-> [err |-> "none",
                      results |-> <<TimeSeries(name, norm.ret.start, norm.ret.end,
                                               norm.ret.step,
                                               safeSumFast(norm.heap, seriesList))>>]]

(***************************************************************************)
(* sumSeriesWithoutNone, lines 224-251, with safeNoneSum, lines 43-47.     *)
(***************************************************************************)
\* lines 43-47: None as soon as one value is missing
safeNoneSum(values) ==
    IF \E i \in DOMAIN values : IsNone(values[i]) THEN None ELSE SumR(values)

\* The precise normalizer: every series is consolidated by step // s.step
normalize(h, seriesLists) ==
    LET seriesList == Flatten(seriesLists)
    IN  IF seriesList = <<>>
        THEN [heap |-> h, ret |-> [err |-> "TypeError"]]
        ELSE
        LET step == ReduceLcm([i \in 1..Len(seriesList) |-> h[seriesList[i]].step])
            done == consolidateAll(h, seriesList, step)
            start == MinOf([i \in 1..Len(seriesList) |-> done.heap[seriesList[i]].start])
            end == MaxOf([i \in 1..Len(seriesList) |-> done.heap[seriesList[i]].end])
        IN  [heap |-> done.heap,
             ret |-> [err |-> "none", seriesList |-> seriesList,
                      start |-> start, end |-> trimEnd(start, end, step),
                      step |-> step, factors |-> done.factors]]

\* line 247: zip(*seriesList) stops with the shortest series
MinLenOf(h, seriesList) ==
    MinOf([k \in DOMAIN seriesList |-> Len(h[seriesList[k]].values)])

sumSeriesWithoutNone(h, seriesLists) ==
    IF seriesLists = <<>> \/ seriesLists = << <<>> >>
    THEN [heap |-> h, ret |-> [err |-> "none", results |-> <<>>]]
    ELSE
    LET norm == normalize(h, seriesLists)
    IN  IF norm.ret.err # "none"
        THEN [heap |-> norm.heap, ret |-> [err |-> norm.ret.err, results |-> <<>>]]
        ELSE
        LET seriesList == norm.ret.seriesList
            name == <<"sumSeriesWithoutNone",
                      formatPathExpressions(norm.heap, seriesList)>>
            values == [i \in 1..MinLenOf(norm.heap, seriesList) |->
                          safeNoneSum(Row(norm.heap, seriesList, i))]
        IN  [heap |-> norm.heap,
             ret |-> [err |-> "none",
                      results |-> <<TimeSeries(name, norm.ret.start, norm.ret.end,
                                               norm.ret.step, values)>>]]

(***************************************************************************)
(* movingMedianOld, lines 157-188.                                         *)
(***************************************************************************)
\* lines 182-183: len(nonNull) / 2 is a float, and a list index that is a
\* float raises TypeError whatever its value
medianOf(nonNull) == [err |-> "TypeError", value |-> None]

\* lines 176-185: the sample appended for the 0-based index i
movingMedianAt(values, windowIndex, i) ==
    IF i < windowIndex THEN [err |-> "none", value |-> None]
    ELSE LET window == SubSeq(values, i - windowIndex + 1, i + 1)
             nonNull == NonNull(window)
         IN  IF nonNull # <<>> THEN medianOf(nonNull)
             ELSE [err |-> "none", value |-> None]

\* lines 169-186: the series that replaces seriesList[seriesIndex]
movingMedianSeries(series, windowSize) ==
    LET samples == [j \in 1..Len(series.values) |->
                       movingMedianAt(series.values, windowSize - 1, j - 1)]
    IN  [err |-> IF \E j \in DOMAIN samples : samples[j].err # "none"
                 THEN "TypeError" ELSE "none",
         series |-> TimeSeries(<<"movingMedian", series.name, <<"%.1f", windowSize>> >>,
                               series.start, series.end, series.step,
                               [j \in DOMAIN samples |-> samples[j].value])]

movingMedianOld(h, seriesList, windowSize) ==
    LET each == [k \in DOMAIN seriesList |->
                    movingMedianSeries(h[seriesList[k]], windowSize)]
    IN  IF \E k \in DOMAIN each : each[k].err # "none"
        THEN [heap |-> h, ret |-> [err |-> "TypeError", results |-> <<>>]]
        ELSE [heap |-> h,
              ret |-> [err |-> "none",
                       results |-> [k \in DOMAIN each |-> each[k].series]]]

(***************************************************************************)
(* Inputs: the series a caller can hand to the operators.                  *)
(***************************************************************************)
\* Series fetched from storage: values cover [start, end) at the native step
SeriesSet(starts, steps, valueSeqs) ==
    {TimeSeries("unnamed", st, st + Len(vs) * sp, sp, vs) :
        st \in starts, sp \in steps, vs \in valueSeqs}

\* Heaps of three objects, the n-th drawn from Sn
Heaps3(S1, S2, S3) == {<<a, b, c>> : a \in S1, b \in S2, c \in S3}

Heaps2(S1, S2) == {<<a, b>> : a \in S1, b \in S2}

\* Each object carries its own name; the series of one fetch share the
\* pattern that selected them
Named(h) ==
    [r \in DOMAIN h |-> [h[r] EXCEPT !.name = ToString(r), !.pathExpression = "pattern.*"]]

Ready ==
    /\ pc = "ready"
    /\ args = [op |-> "none"]
    /\ ret = [err |-> "pending"]
    /\ input = heap

Finish(op, a, r) ==
    /\ pc' = op
    /\ args' = a
    /\ heap' = r.heap
    /\ ret' = r.ret
    /\ UNCHANGED input

(***************************************************************************)
(* The normalizers called on their own.                                    *)
(***************************************************************************)
NormRefLists == {<<>>, <<1>>, <<1, 2>>, <<1, 2, 3>>, <<1, 1>>, <<1, 2, 1>>}

Splits(l) == {<<l>>} \cup {<<SubSeq(l, 1, k), SubSeq(l, k + 1, Len(l))>> : k \in 0..Len(l)}

NormSeries == SeriesSet(0..MaxStart, 1..MaxStep, SeqsUpTo({R(1)}, MaxLen))

InitNorm ==
    /\ heap \in {Named(h) : h \in Heaps3(NormSeries, NormSeries, NormSeries)}
    /\ Ready

CallNormalizeApproximate ==
    /\ pc = "ready"
    /\ \E l \in NormRefLists : \E seriesLists \in Splits(l) \cup {<<>>} :
          Finish("normalizeApproximate", [seriesLists |-> seriesLists],
                 normalizeApproximate(heap, seriesLists))

CallFastNormalize ==
    /\ pc = "ready"
    /\ \E seriesLists \in NormRefLists :
          Finish("fastNormalize", [seriesLists |-> seriesLists],
                 fastNormalize(heap, seriesLists))

NextNorm == CallNormalizeApproximate \/ CallFastNormalize

SpecNorm == InitNorm /\ [][NextNorm]_vars

(***************************************************************************)
(* Claims about the normalizers.                                           *)
(***************************************************************************)
\* The flat list of references a normalizer call received
NormInput ==
    IF pc = "normalizeApproximate" THEN Flatten(args.seriesLists)
    ELSE args.seriesLists

IsLcm(m, steps) ==
    /\ m >= 1
    /\ \A i \in DOMAIN steps : m % steps[i] = 0
    /\ \A k \in 1..(m - 1) : \E i \in DOMAIN steps : k % steps[i] # 0

\* C1: for every non-empty input, both normalizers return (start, end, step)
\* with (end - start) % step = 0, start the minimum input start and end no
\* greater than the maximum input end.
C1_TrimInvariant ==
    (pc \in {"normalizeApproximate", "fastNormalize"} /\ NormInput # <<>>) =>
        /\ ret.err = "none"
        /\ (ret.end - ret.start) % ret.step = 0
        /\ \A i \in DOMAIN NormInput : ret.start <= input[NormInput[i]].start
        /\ \E i \in DOMAIN NormInput : ret.start = input[NormInput[i]].start
        /\ \E i \in DOMAIN NormInput : ret.end <= input[NormInput[i]].end

\* A call whose inputs have different steps and whose tail was trimmed
C1_Witness ==
    /\ pc = "fastNormalize"
    /\ ret.err = "none"
    /\ Len(args.seriesLists) = 3
    /\ ret.step > input[1].step
    /\ \E i \in DOMAIN NormInput : ret.end < input[NormInput[i]].end
    /\ ret.end > ret.start

\* C10: normalizeApproximate computes the least common multiple of the
\* input steps and requests, for each series s, consolidation by the factor
\* step / s.step, an integer >= 1 that is 1 exactly for series already at
\* the target step.
C10_ApproximateFactor ==
    (pc = "normalizeApproximate" /\ ret.err = "none") =>
        /\ IsLcm(ret.step, [i \in DOMAIN NormInput |-> input[NormInput[i]].step])
        /\ Len(ret.factors) = Len(NormInput)
        /\ \A i \in DOMAIN NormInput :
              LET sStep == input[NormInput[i]].step
              IN  /\ ret.factors[i] >= 1
                  /\ ret.factors[i] * sStep = ret.step
                  /\ (ret.factors[i] = 1) <=> (sStep = ret.step)

\* The input steps of a normalizer call, in list order
InputSteps == [i \in DOMAIN NormInput |-> input[NormInput[i]].step]

\* The first position at which the object of position i is listed; at a
\* later position the object is already at the target step
FirstListed(i) ==
    \A j \in 1..(i - 1) : NormInput[j] # NormInput[i]

\* The part of C11 about the returned step, start and end and about the
\* consolidation requests: those of a full reduction over the list
FastNormalizeReduction ==
    /\ ret.err = "none"
    /\ IsLcm(ret.step, InputSteps)
    /\ \A i \in DOMAIN NormInput : ret.start <= input[NormInput[i]].start
    /\ \E i \in DOMAIN NormInput : ret.start = input[NormInput[i]].start
    /\ \E i \in DOMAIN NormInput :
          /\ \A j \in DOMAIN NormInput :
                input[NormInput[j]].end <= input[NormInput[i]].end
          /\ ret.end <= input[NormInput[i]].end
          /\ input[NormInput[i]].end - ret.end < ret.step
    /\ (ret.end - ret.start) % ret.step = 0
    /\ (ret.factors # <<>>) <=> (\E i, j \in DOMAIN InputSteps :
                                     InputSteps[i] # InputSteps[j])
    /\ ret.factors # <<>> =>
          /\ Len(ret.factors) = Len(NormInput)
          /\ \A i \in DOMAIN NormInput :
                IF FirstListed(i)
                THEN ret.factors[i] * InputSteps[i] = ret.step
                ELSE ret.factors[i] = 1
          /\ \A i \in DOMAIN NormInput : heap[NormInput[i]].step = ret.step
    /\ ret.factors = <<>> => heap = input

\* C11: for every non-empty list, in any order, fastNormalize yields the
\* step, start and end of a full reduction (step the least common multiple
\* of the input steps, start the minimum start, end the maximum end trimmed
\* to a multiple of step), its min_step ends as the smallest native step
\* seen, and it consolidates every series by step / s.step exactly when the
\* input steps are not all equal.
C11_FastNormalizeSinglePass ==
    (pc = "fastNormalize" /\ NormInput # <<>>) =>
        /\ FastNormalizeReduction
        /\ \A i \in DOMAIN InputSteps : ret.min_step <= InputSteps[i]
        /\ \E i \in DOMAIN InputSteps : ret.min_step = InputSteps[i]

\* What the code does hold to: everything in C11 but the value of min_step,
\* which is some native step, below the final step when the steps differ
C11_FastNormalizeReductionOnly ==
    (pc = "fastNormalize" /\ NormInput # <<>>) =>
        /\ FastNormalizeReduction
        /\ \E i \in DOMAIN InputSteps : ret.min_step = InputSteps[i]
        /\ (ret.min_step = ret.step) <=> (ret.factors = <<>>)

(***************************************************************************)
(* divideSeries called on dividends 1 (A), 2 (B) and divisor 3 (C).        *)
(***************************************************************************)
DivSamples == {None, R(0), R(MaxVal)}

\* The first dividend and the divisor: missing, zero and non-zero samples
DivSeries == SeriesSet({0}, 1..MaxStep, SeqsUpTo(DivSamples, MaxLen))

\* The second dividend: every step, two sample sequences
DivSecond == SeriesSet({0}, 1..MaxStep, {<<R(1)>>, <<None, R(MaxVal)>>})

DivideArgs ==
    {<<d, v>> : d \in {<<>>, <<1>>, <<1, 2>>, <<1, 1>>, <<1, 2, 3>>},
                v \in {<<>>, <<3>>, <<3, 3>>, <<3, 1>>}}

InitDivide ==
    /\ heap \in {Named(h) : h \in Heaps3(DivSeries, DivSecond, DivSeries)}
    /\ Ready

CallDivideSeries ==
    /\ pc = "ready"
    /\ \E a \in DivideArgs :
          Finish("divideSeries", [dividends |-> a[1], divisors |-> a[2]],
                 divideSeries(heap, a[1], a[2]))

NextDivide == CallDivideSeries

SpecDivide == InitDivide /\ [][NextDivide]_vars

(***************************************************************************)
(* Claims about divideSeries.                                              *)
(***************************************************************************)
\* The call divideSeries([A, B], [C, C]) on the same inputs, the second
\* divisor a series of its own with the fields of C
WithTwoDivisors ==
    LET C == args.divisors[1]
        copy == Len(input) + 1
    IN  divideSeries(Append(input, input[C]), args.dividends, <<C, copy>>)

\* C2: for all series A, B and C, divideSeries([A, B], [C]) returns the same
\* list of result series (names, start, end, step and values, in the same
\* order) as divideSeries([A, B], [C, C]).
C2_DivisionBroadcast ==
    (pc = "divideSeries" /\ Len(args.dividends) = 2 /\ Len(args.divisors) = 1) =>
        /\ ret.err = "none"
        /\ ret.results = WithTwoDivisors.ret.results

\* What the code does hold to: the results are those of [C, C] when the two
\* entries are the one object C, and also those of two separate divisors
\* when the first pair leaves C as it is (the step of C is a multiple of
\* the step of A)
C2_DivisionBroadcastSameObject ==
    (pc = "divideSeries" /\ Len(args.dividends) = 2 /\ Len(args.divisors) = 1) =>
        LET A == args.dividends[1]
            C == args.divisors[1]
            listed == divideSeries(input, args.dividends, <<C, C>>)
        IN  /\ ret.err = "none"
            /\ ret = listed.ret
            /\ heap = listed.heap
            /\ input[C].step % input[A].step = 0 =>
                  ret.results = WithTwoDivisors.ret.results

\* C7: divideSeries raises ValueError exactly when the divisor list length is
\* neither 1 nor the dividend list length, before any series is
\* consolidated; otherwise it returns one quotient per dividend, in
\* dividend order.
C7_DivideArgumentCount ==
    pc = "divideSeries" =>
        /\ (ret.err = "ValueError") <=>
               (Len(args.divisors) \notin {1, Len(args.dividends)})
        /\ ret.err = "ValueError" => (heap = input /\ ret.results = <<>>)
        /\ ret.err # "ValueError" =>
               /\ ret.err = "none"
               /\ Len(ret.results) = Len(args.dividends)
               /\ \A i \in DOMAIN args.dividends :
                     ret.results[i].name[2] = input[args.dividends[i]].name

\* An accepted broadcast call that consolidated a series and returned two
\* quotients
C7_Witness ==
    /\ pc = "divideSeries"
    /\ Len(args.dividends) = 2
    /\ Len(args.divisors) = 1
    /\ heap # input
    /\ ret.err = "none"
    /\ Len(ret.results) = 2
    /\ ret.results[1].name # ret.results[2].name

(***************************************************************************)
(* asPercent called on series 1, 2 and total series 3.                     *)
(***************************************************************************)
PctSamples == {None, R(0), R(MaxVal)}

\* The documented example: S1 = [10, 20], S2 = [30, 40], same step and window
ExampleHeap ==
    [r \in 1..3 |->
        TimeSeries(ToString(r), 0, 2, 1,
                   IF r = 1 THEN <<R(10), R(20)>>
                   ELSE IF r = 2 THEN <<R(30), R(40)>>
                   ELSE <<R(40), R(60)>>)]

PctSeries == SeriesSet({0}, 1..MaxStep, SeqsUpTo(PctSamples, MaxLen))

\* The series used in total lists: every step, one sample
PctTotalSeries == SeriesSet({0}, 1..MaxStep, {<<R(1)>>})

PercentSeriesLists == {<<>>, <<1>>, <<1, 2>>, <<2, 1, 2>>}

PercentTotals ==
    {NoTotal, ScalarTotal(R(0)), ScalarTotal(R(MaxVal))}
        \cup {ListTotal(l) : l \in {<<>>, <<3>>, <<3, 1>>, <<1, 2, 3>>}}

InitPercent ==
    /\ heap \in {Named(h) : h \in Heaps3(PctSeries, PctSeries, PctTotalSeries)}
                \cup {ExampleHeap}
    /\ Ready

CallAsPercent ==
    /\ pc = "ready"
    /\ \E seriesList \in PercentSeriesLists : \E total \in PercentTotals :
          Finish("asPercent", [seriesList |-> seriesList, total |-> total],
                 asPercent(heap, seriesList, total))

NextPercent == CallAsPercent

SpecPercent == InitPercent /\ [][NextPercent]_vars

(***************************************************************************)
(* Claims about asPercent.                                                 *)
(***************************************************************************)
Percent(v, t) == safeMul(safeDiv(v, t), R(100))

\* C3: with a scalar total t, asPercent returns one result per input series
\* and, for every input series (the first and all later ones) and every
\* sample index i, the result value is safeMul(safeDiv(value_i, t), 100).
C3_ScalarTotalEverySeries ==
    (pc = "asPercent" /\ args.seriesList # <<>> /\ args.total.kind = "scalar") =>
        /\ ret.err = "none"
        /\ Len(ret.results) = Len(args.seriesList)
        /\ \A k \in DOMAIN args.seriesList :
              LET values == input[args.seriesList[k]].values
              IN  /\ Len(ret.results[k].values) = Len(values)
                  /\ \A i \in DOMAIN values :
                        ret.results[k].values[i] = Percent(values[i], args.total.value)

\* What the code does hold to: the first series is divided by the scalar
C3_ScalarTotalFirstSeries ==
    (pc = "asPercent" /\ args.seriesList # <<>> /\ args.total.kind = "scalar") =>
        /\ ret.err = "none"
        /\ Len(ret.results) = Len(args.seriesList)
        /\ LET values == input[args.seriesList[1]].values
           IN  /\ Len(ret.results[1].values) = Len(values)
               /\ \A i \in DOMAIN values :
                     ret.results[1].values[i] = Percent(values[i], args.total.value)

SameStepAndWindow(h, seriesList) ==
    \A j, k \in DOMAIN seriesList :
        /\ h[seriesList[j]].step = h[seriesList[k]].step
        /\ h[seriesList[j]].start = h[seriesList[k]].start
        /\ h[seriesList[j]].end = h[seriesList[k]].end

\* The sum of the non-missing samples at index i, None when there is none
RECURSIVE ColumnSum(_, _, _, _)
ColumnSum(h, seriesList, i, k) ==
    IF k = 0 THEN None
    ELSE LET rest == ColumnSum(h, seriesList, i, k - 1)
             v == At(h[seriesList[k]].values, i)
         IN  IF IsNone(v) THEN rest
             ELSE IF IsNone(rest) THEN v
             ELSE RAdd(rest, v)

\* C5: with no total and series sharing step and window, the denominator at
\* index i is the sum of all the series' non-missing samples at i, the same
\* for every series; each result sample is safeMul(safeDiv(value_i,
\* total_i), 100), no value when the sample or the total is missing or the
\* total is zero; S1 = [10, 20], S2 = [30, 40] give [25, 100/3], [75, 200/3].
C5_DefaultTotal ==
    (pc = "asPercent" /\ args.seriesList # <<>> /\ args.total.kind = "none"
        /\ SameStepAndWindow(input, args.seriesList)) =>
        /\ ret.err = "none"
        /\ Len(ret.results) = Len(args.seriesList)
        /\ \A k \in DOMAIN args.seriesList :
              LET values == input[args.seriesList[k]].values
                  out == ret.results[k].values
              IN  /\ Len(out) = Len(values)
                  /\ \A i \in DOMAIN values :
                        LET t == ColumnSum(input, args.seriesList, i,
                                           Len(args.seriesList))
                        IN  /\ out[i] = Percent(values[i], t)
                            /\ (IsNone(values[i]) \/ IsNone(t) \/ t = R(0))
                                   => IsNone(out[i])
                            /\ ~(IsNone(values[i]) \/ IsNone(t) \/ t = R(0))
                                   => out[i] = RDiv(RMul(values[i], R(100)), t)
        /\ (input = ExampleHeap /\ args.seriesList = <<1, 2>>) =>
              /\ ret.results[1].values = << <<25, 1>>, <<100, 3>> >>
              /\ ret.results[2].values = << <<75, 1>>, <<200, 3>> >>

\* Two series with the same window where one sample is missing and one
\* column sums to zero
C5_Witness ==
    /\ pc = "asPercent"
    /\ args.seriesList = <<1, 2>>
    /\ args.total.kind = "none"
    /\ SameStepAndWindow(input, args.seriesList)
    /\ input[1].values = <<R(MaxVal), R(0)>>
    /\ input[2].values = <<None, R(0)>>
    /\ ret.results[1].values = <<R(100), None>>
    /\ ret.results[2].values = <<None, None>>

\* C6: asPercent raises ValueError exactly when the series list is non-empty
\* and total is a list of length 0, or of a length neither 1 nor that of the
\* series list; asPercent([], total) returns [] for any total.
C6_TotalArgumentCount ==
    pc = "asPercent" =>
        /\ (ret.err = "ValueError") <=>
               /\ args.seriesList # <<>>
               /\ args.total.kind = "list"
               /\ \/ Len(args.total.refs) = 0
                  \/ Len(args.total.refs) \notin {1, Len(args.seriesList)}
        /\ ret.err \in {"none", "ValueError"}
        /\ args.seriesList = <<>> => (ret.err = "none" /\ ret.results = <<>>)

\* A single total series accepted for two input series
C6_Witness ==
    /\ pc = "asPercent"
    /\ args.seriesList = <<1, 2>>
    /\ args.total = ListTotal(<<3>>)
    /\ ret.err = "none"
    /\ Len(ret.results) = 2

(***************************************************************************)
(* sumSeriesFast called on groups of the series 1, 2, 3.                   *)
(***************************************************************************)
SumSamples == {None, R(1), R(MaxVal)}

SumSeries == SeriesSet({0}, 1..MaxStep, SeqsUpTo(SumSamples, MaxLen))

SumArgs ==
    {<<>>, << <<>> >>, << <<1>> >>, << <<1, 2>> >>, << <<1, 2, 3>> >>,
     << <<1, 2>>, <<3>> >>, << <<>>, <<1>> >>}

InitSum ==
    /\ heap \in {Named(h) : h \in Heaps3(SumSeries, SumSeries, SumSeries)}
    /\ Ready

CallSumSeriesFast ==
    /\ pc = "ready"
    /\ \E seriesLists \in SumArgs :
          Finish("sumSeriesFast", [seriesLists |-> seriesLists],
                 sumSeriesFast(heap, seriesLists))

NextSum == CallSumSeriesFast

SpecSum == InitSum /\ [][NextSum]_vars

(***************************************************************************)
(* mostDeviant called on the series 1, 2, 3 with a count n >= 0.           *)
(***************************************************************************)
DeviantSamples == {None, R(0), R(1), R(MaxVal)}

DeviantSeries == SeriesSet({0}, {1}, SeqsUpTo(DeviantSamples, MaxLen))

\* The third series: no sample, a constant pair, a spread pair
DeviantThird ==
    SeriesSet({0}, {1}, {<<None>>, <<R(1), R(1)>>, <<R(0), R(MaxVal)>>})

InitDeviant ==
    /\ heap \in {Named(h) : h \in Heaps3(DeviantSeries, DeviantSeries, DeviantThird)}
    /\ Ready

CallMostDeviant ==
    /\ pc = "ready"
    /\ \E refs \in {<<>>, <<1, 2>>, <<1, 2, 3>>, <<1, 1>>} :
       \E n \in 0..MaxN : \E swapped \in BOOLEAN :
          LET a1 == IF swapped THEN IntArg(n) ELSE ListArg(refs)
              a2 == IF swapped THEN ListArg(refs) ELSE IntArg(n)
          IN  \E outcome \in mostDeviant(heap, a1, a2) :
                  Finish("mostDeviant", [seriesList |-> a1, n |-> a2], outcome)

NextDeviant == CallMostDeviant

SpecDeviant == InitDeviant /\ [][NextDeviant]_vars

(***************************************************************************)
(* movingAverageOld called on the series 1, 2.                             *)
(***************************************************************************)
MovingSamples == {None, R(0), R(MaxVal)}

MovingSeries == SeriesSet({0}, {1}, SeqsUpTo(MovingSamples, MaxMovingLen))

InitMoving ==
    /\ heap \in {Named(h) : h \in Heaps2(MovingSeries, MovingSeries)}
    /\ Ready

CallMovingAverageOld ==
    /\ pc = "ready"
    /\ \E seriesList \in {<<>>, <<1>>, <<1, 2>>} : \E windowSize \in 0..MaxWindow :
          Finish("movingAverage", [seriesList |-> seriesList, windowSize |-> windowSize],
                 movingAverageOld(heap, seriesList, windowSize))

NextMoving == CallMovingAverageOld

SpecMoving == InitMoving /\ [][NextMoving]_vars

(***************************************************************************)
(* Claim about sumSeriesFast.                                              *)
(***************************************************************************)
\* C4: sumSeriesFast returns a single series whose value at each index i is
\* the sum of the non-missing samples at index i across the harmonized
\* input series: a value present at index i in any one series contributes
\* to position i of the result, even when other series, the first one
\* included, are missing at that index.
C4_SumAtIndex ==
    (pc = "sumSeriesFast" /\ ret.err = "none"
        /\ args.seriesLists \notin {<<>>, << <<>> >>}) =>
        LET seriesList == args.seriesLists[1]
        IN  /\ Len(ret.results) = 1
            /\ \A i \in 1..MaxLenOf(heap, seriesList) :
                  LET t == ColumnSum(heap, seriesList, i, Len(seriesList))
                  IN  ~IsNone(t) =>
                        /\ i <= Len(ret.results[1].values)
                        /\ ret.results[1].values[i] = t

(***************************************************************************)
(* Claim about mostDeviant.                                                *)
(***************************************************************************)
Variance(values) ==
    LET nonNull == NonNull(values)
        count == R(Len(nonNull))
        mean == RDiv(SumR(nonNull), count)
        squares == [i \in DOMAIN nonNull |->
                       RMul(RSub(nonNull[i], mean), RSub(nonNull[i], mean))]
    IN  RDiv(SumR(squares), count)

Eligible(h, r) == NonNull(h[r].values) # <<>>

Elements(l) == {l[i] : i \in DOMAIN l}

\* C8: mostDeviant(seriesList, n), the arguments in either order, returns at
\* most n of the original input series, ordered by sigma (sum of squared
\* deviations of the non-missing samples from their mean, over their
\* count) non-increasing; a series with no non-missing sample is never
\* returned; no returned series has a smaller sigma than an omitted
\* eligible one; variances s1 < s2 < s3 and n = 2 give [s3, s2].
C8_MostDeviantRanking ==
    pc = "mostDeviant" =>
        LET swapped == args.n.kind = "list"
            refs == IF swapped THEN args.n.refs ELSE args.seriesList.refs
            n == IF swapped THEN args.seriesList.value ELSE args.n.value
            out == ret.results
            var(r) == Variance(input[r].values)
        IN  /\ ret.err = "none"
            /\ heap = input
            /\ Len(out) <= n
            /\ Elements(out) \subseteq Elements(refs)
            /\ \A i \in DOMAIN out : Eligible(input, out[i])
            /\ \A i, j \in DOMAIN out : i < j => ~RLess(var(out[i]), var(out[j]))
            /\ \A r \in Elements(refs) \ Elements(out) :
                  Eligible(input, r) =>
                      \A i \in DOMAIN out : ~RLess(var(out[i]), var(r))
            /\ (/\ refs = <<1, 2, 3>> /\ n = 2
                /\ \A r \in 1..3 : Eligible(input, r)
                /\ RLess(var(1), var(2)) /\ RLess(var(2), var(3)))
                  => out = <<3, 2>>

\* Three series of increasing variance, the count given first, n = 2
C8_Witness ==
    /\ pc = "mostDeviant"
    /\ args.n = ListArg(<<1, 2, 3>>)
    /\ args.seriesList = IntArg(2)
    /\ \A r \in 1..3 : Eligible(input, r)
    /\ RLess(Variance(input[1].values), Variance(input[2].values))
    /\ RLess(Variance(input[2].values), Variance(input[3].values))
    /\ ret.results = <<3, 2>>

(***************************************************************************)
(* Claim about the legacy movingAverage.                                   *)
(***************************************************************************)
\* The average of the non-missing values of S[i-N+1 .. i] (1-based i >= N)
WindowAverage(values, N, i) == safeAvg(SubSeq(values, i - N + 1, i))

MovingTail(values, out, N) ==
    \A i \in N..Len(values) : out[i] = WindowAverage(values, N, i)

\* C9 as stated: for every series S and window size N >= 1 the output has
\* len(S) entries, its leading padding has exactly N-1 "no value" entries,
\* and each later sample i is the average of the non-missing values of
\* S[i-N+1 .. i].
C9_ExactlyNMinusOnePadding ==
    (pc = "movingAverage" /\ args.windowSize >= 1) =>
        \A k \in DOMAIN args.seriesList :
            LET values == input[args.seriesList[k]].values
                out == ret.results[k].values
                N == args.windowSize
            IN  /\ Len(out) = Len(values)
                /\ Len(out) >= N - 1
                /\ \A i \in 1..(N - 1) : IsNone(out[i])
                /\ MovingTail(values, out, N)

\* C9 amended: the output has len(S) entries, its first min(N-1, len(S))
\* entries are "no value" padding, and each later sample i is the average
\* of the non-missing values of S[i-N+1 .. i], no value if there is none.
C9_MovingAveragePadding ==
    (pc = "movingAverage" /\ args.windowSize >= 1) =>
        /\ ret.err = "none"
        /\ Len(ret.results) = Len(args.seriesList)
        /\ \A k \in DOMAIN args.seriesList :
            LET values == input[args.seriesList[k]].values
                out == ret.results[k].values
                N == args.windowSize
            IN  /\ Len(out) = Len(values)
                /\ \A i \in 1..Min2(N - 1, Len(values)) : IsNone(out[i])
                /\ MovingTail(values, out, N)

\* A window of 3 over four samples, one of them missing
C9_Witness ==
    /\ pc = "movingAverage"
    /\ args.windowSize = 3
    /\ args.seriesList = <<1>>
    /\ input[1].values = <<R(MaxVal), None, R(0), None>>
    /\ ret.results[1].values = <<None, None, RDiv(R(MaxVal), R(2)), R(0)>>

(***************************************************************************)
(* Every function the module defines, on one set of inputs: the functions  *)
(* the registry (lines 356-367) exposes, and normalizeApproximate,         *)
(* fastNormalize and mostDeviant, which it does not.                       *)
(***************************************************************************)
AnySeries == SeriesSet({0}, 1..MaxStep, {<<>>, <<None>>, <<R(MaxVal)>>})

Init ==
    /\ heap \in {Named(h) : h \in Heaps3(AnySeries, AnySeries, AnySeries)}
    /\ Ready

CallSumSeriesWithoutNone ==
    /\ pc = "ready"
    /\ \E seriesLists \in SumArgs \cup {<< <<>>, <<>> >>} :
          Finish("sumSeriesWithoutNone", [seriesLists |-> seriesLists],
                 sumSeriesWithoutNone(heap, seriesLists))

CallMovingMedianOld ==
    /\ pc = "ready"
    /\ \E seriesList \in {<<>>, <<1>>, <<1, 2>>} : \E windowSize \in 0..MaxWindow :
          Finish("movingMedian", [seriesList |-> seriesList, windowSize |-> windowSize],
                 movingMedianOld(heap, seriesList, windowSize))

Next ==
    \/ CallNormalizeApproximate
    \/ CallFastNormalize
    \/ CallDivideSeries
    \/ CallAsPercent
    \/ CallSumSeriesFast
    \/ CallSumSeriesWithoutNone
    \/ CallMostDeviant
    \/ CallMovingAverageOld
    \/ CallMovingMedianOld

Spec == Init /\ [][Next]_vars

====
